---------------------------- MODULE Spec2Model ----------------------------
(***************************************************************************)
(* Model of the crate `space`: the iterators Linspace<T> and Logspace<T>   *)
(* and their constructors linspace / logspace (src/src/lib.rs).            *)
(*                                                                         *)
(* The element type T (a Floaty: f32 or f64) is modelled by a binary       *)
(* floating-point format of the same shape with fewer bits: MantBits       *)
(* significant bits, round-to-nearest-even, gradual underflow, overflow    *)
(* to infinity, and a NaN.  A finite value is the integer number of        *)
(* quanta of 2^-FracBits it holds; the two infinities and NaN are the      *)
(* integers just beyond the finite range.  The two zeros of IEEE 754 are   *)
(* one value here: they compare equal in Rust and no operation of the      *)
(* program divides by zero.                                                *)
(***************************************************************************)
EXTENDS Integers, Sequences, FiniteSets, TLC

\* ------------------------------------------------------------------ bounds
\* Largest count `n` passed to a constructor.
MaxN == 5
\* Pulls answered with None that are followed after exhaustion.
MaxNone == 2

\* --------------------------------------------------- the element type T
\* Significant bits of T (24 for f32, 53 for f64).
MantBits == 4
\* 1.0 is 2^FracBits quanta: the smallest positive value is 2^-FracBits.
FracBits == 2
\* Binades above the first: the largest finite value is
\* (2^MantBits - 1) * 2^ExpRange quanta.
ExpRange == 2

One == 2 ^ FracBits
MaxFinite == (2 ^ MantBits - 1) * 2 ^ ExpRange
PInf == MaxFinite + 1
NInf == 0 - PInf
NaN == MaxFinite + 2

Abs(k) == IF k < 0 THEN 0 - k ELSE k

\* k quanta is a value of T: at most MantBits significant bits.
IsRep(k) ==
    \/ Abs(k) < 2 ^ MantBits
    \/ \E e \in 1..ExpRange : Abs(k) < 2 ^ (MantBits + e) /\ Abs(k) % (2 ^ e) = 0

Finite == {k \in (0 - MaxFinite)..MaxFinite : IsRep(k)}
Floats == Finite \cup {PInf, NInf, NaN}

IsFinite(x) == (0 - MaxFinite) <= x /\ x <= MaxFinite
IsNaN(x) == x = NaN

\* a / b rounded to the nearest integer, ties to even (a >= 0, b > 0).
RNE(a, b) ==
    LET f == a \div b
        r == a % b
    IN  IF 2 * r < b THEN f
        ELSE IF 2 * r > b THEN f + 1
        ELSE IF f % 2 = 0 THEN f ELSE f + 1

\* The magnitude num / den quanta (num >= 0, den > 0) rounded to T.
RoundMag(num, den) ==
    IF num >= 2 ^ (MantBits + ExpRange) * den THEN PInf
    ELSE LET e == CHOOSE e \in 0..ExpRange :
                    /\ num < 2 ^ (MantBits + e) * den
                    /\ \A d \in 0..(e - 1) : num >= 2 ^ (MantBits + d) * den
             r == RNE(num, den * 2 ^ e) * 2 ^ e
         IN  IF r > MaxFinite THEN PInf ELSE r

\* The rational num / den quanta (den > 0) rounded to T.
Round(num, den) ==
    IF num >= 0 THEN RoundMag(num, den) ELSE 0 - RoundMag(0 - num, den)

Sign(x) == IF x < 0 THEN 0 - 1 ELSE IF x > 0 THEN 1 ELSE 0

\* IEEE comparisons: every comparison with a NaN is false.
FLe(a, b) == ~IsNaN(a) /\ ~IsNaN(b) /\ a <= b
FGt(a, b) == ~IsNaN(a) /\ ~IsNaN(b) /\ a > b
FEq(a, b) == ~IsNaN(a) /\ ~IsNaN(b) /\ a = b

FNeg(a) == IF IsNaN(a) THEN NaN ELSE 0 - a

FAdd(a, b) ==
    IF IsNaN(a) \/ IsNaN(b) THEN NaN
    ELSE IF ~IsFinite(a) /\ ~IsFinite(b) THEN (IF a = b THEN a ELSE NaN)
    ELSE IF ~IsFinite(a) THEN a
    ELSE IF ~IsFinite(b) THEN b
    ELSE Round(a + b, 1)

FSub(a, b) == FAdd(a, FNeg(b))

FMul(a, b) ==
    IF IsNaN(a) \/ IsNaN(b) THEN NaN
    ELSE IF ~IsFinite(a) \/ ~IsFinite(b)
         THEN (IF a = 0 \/ b = 0 THEN NaN ELSE Sign(a) * Sign(b) * PInf)
    ELSE Round(a * b, One)

FDiv(a, b) ==
    IF IsNaN(a) \/ IsNaN(b) THEN NaN
    ELSE IF ~IsFinite(a) THEN (IF ~IsFinite(b) THEN NaN
                               ELSE IF b < 0 THEN 0 - a ELSE a)
    ELSE IF ~IsFinite(b) THEN 0
    ELSE IF b = 0 THEN (IF a = 0 THEN NaN ELSE Sign(a) * PInf)
    ELSE Round(Sign(b) * a * One, Abs(b))

\* T::cast(i) for a usize i: the nearest value of T.
Cast(i) == Round(i * One, 1)

\* x.ln() for x > 0, correctly rounded in T (ln(+inf) = +inf).
LnTable ==
    (1 :> 0 - 6) @@ (2 :> 0 - 3) @@ (3 :> 0 - 1) @@ (4 :> 0) @@ (5 :> 1) @@
    (6 :> 2) @@ (7 :> 2) @@ (8 :> 3) @@ (9 :> 3) @@ (10 :> 4) @@ (11 :> 4) @@
    (12 :> 4) @@ (13 :> 5) @@ (14 :> 5) @@ (15 :> 5) @@ (16 :> 6) @@ (18 :> 6) @@
    (20 :> 6) @@ (22 :> 7) @@ (24 :> 7) @@ (26 :> 7) @@ (28 :> 8) @@ (30 :> 8) @@
    (32 :> 8) @@ (36 :> 9) @@ (40 :> 9) @@ (44 :> 10) @@ (48 :> 10) @@
    (52 :> 10) @@ (56 :> 11) @@ (60 :> 11)

Ln(x) ==
    IF IsNaN(x) THEN NaN
    ELSE IF x = PInf THEN PInf
    ELSE IF x = 0 THEN NInf
    ELSE IF x < 0 THEN NaN
    ELSE LnTable[x]

\* x.exp(), correctly rounded in T: it underflows to 0 and overflows to +inf.
ExpTable ==
    (0 - 8 :> 1) @@ (0 - 7 :> 1) @@ (0 - 6 :> 1) @@ (0 - 5 :> 1) @@ (0 - 4 :> 1) @@
    (0 - 3 :> 2) @@ (0 - 2 :> 2) @@ (0 - 1 :> 3) @@ (0 :> 4) @@ (1 :> 5) @@ (2 :> 7) @@
    (3 :> 8) @@ (4 :> 11) @@ (5 :> 14) @@ (6 :> 18) @@ (7 :> 24) @@ (8 :> 30) @@
    (9 :> 36) @@ (10 :> 48)

Exp(x) ==
    IF IsNaN(x) THEN NaN
    ELSE IF x \in DOMAIN ExpTable THEN ExpTable[x]
    ELSE IF x < 0 THEN 0
    ELSE PInf

\* ------------------------------------------------------------ the program
VARIABLES
    kind,       \* "none" before construction, then "lin" (Linspace) or "log" (Logspace)
    status,     \* "unbuilt", "live" (a generator exists) or "panicked" (the constructor faulted)
    start,      \* field start
    state,      \* field state: the front cursor
    step,       \* field step
    stop,       \* field stop: the back cursor
    args,       \* the arguments the constructor was called with
    yielded,    \* the Some(..) results so far, in production order, with index and end
    ret,        \* the result of the last call
    nones,      \* number of pulls answered None so far
    lnArgs,     \* the values whose logarithm has been taken
    underflow,  \* a usize subtraction went below zero
    copy,       \* the fields of the clone of the generator, once cloned
    cloneAt,    \* Len(yielded) when the clone was taken, -1 before
    cyielded,   \* the Some(..) results of the clone, in production order
    cret,       \* the result of the last call on the clone
    twin,       \* the fields of a Linspace built from (ln(start), ln(end), n)
    tret        \* the result of the last call on the twin

cloneVars == <<copy, cloneAt, cyielded, cret>>
twinVars == <<twin, tret>>
vars == <<kind, status, start, state, step, stop, args, yielded, ret, nones, lnArgs, underflow,
          cloneVars, twinVars>>
fields == <<start, state, step, stop>>

\* Results of a call: Option<T> of a pull (val), (usize, Option<usize>) of
\* size_hint (lo, hi), a generator or a panic of a constructor.
NoRet == [op |-> "none", tag |-> "none", val |-> 0, lo |-> 0, hi |-> 0]
Some(op, v) == [op |-> op, tag |-> "Some", val |-> v, lo |-> 0, hi |-> 0]
None(op) == [op |-> op, tag |-> "None", val |-> 0, lo |-> 0, hi |-> 0]
Hint(lo, hi) == [op |-> "size_hint", tag |-> "Hint", val |-> 0, lo |-> lo, hi |-> hi]
Built(op) == [op |-> op, tag |-> "Ok", val |-> 0, lo |-> 0, hi |-> 0]
Panic(op) == [op |-> op, tag |-> "Panic", val |-> 0, lo |-> 0, hi |-> 0]

\* A generator as a value: the four fields of struct Linspace / Logspace.
Gen(a, b, c, d) == [start |-> a, state |-> b, step |-> c, stop |-> d]
NoGen == Gen(0, 0, 0, 0)

Init ==
    /\ kind = "none"
    /\ status = "unbuilt"
    /\ start = 0
    /\ state = 0
    /\ step = 0
    /\ stop = 0
    /\ args = [start |-> 0, end |-> 0, n |-> 0]
    /\ yielded = <<>>
    /\ ret = NoRet
    /\ nones = 0
    /\ lnArgs = {}
    /\ underflow = FALSE
    /\ copy = NoGen
    /\ cloneAt = 0 - 1
    /\ cyielded = <<>>
    /\ cret = NoRet
    /\ twin = NoGen
    /\ tret = NoRet

\* `n - 1` in usize: evaluated on the `else` branch of `if n < 2`, wrapping below 1.
StepUnderflows(n) == ~(n < 2) /\ n < 1

\* The step with the degenerate test off by one: `n < 1`.
StepOf_offByOne(s, e, n) ==
    IF n < 1 THEN Cast(0) ELSE FDiv(FSub(e, s), Cast(n - 1))

\* The step dividing by n instead of n - 1.
StepOf_byN(s, e, n) ==
    IF n < 2 THEN Cast(0) ELSE FDiv(FSub(e, s), Cast(n))

\* `if n < 2 { T::cast(0) } else { (end - start) / T::cast(n - 1) }`
StepOf(s, e, n) ==
    IF n < 2 THEN Cast(0) ELSE FDiv(FSub(e, s), Cast(n - 1))

\* linspace without its assertion.
LinspaceOk_unchecked(s, e) == TRUE

\* `assert!(start <= end)`
LinspaceOk(s, e) == FLe(s, e)

\* logspace asserting only `start <= end`.
LogspaceOk_orderOnly(s, e) == FLe(s, e)

\* `assert!(start > _0 && end > _0 && start <= end)`
LogspaceOk(s, e) == FGt(s, Cast(0)) /\ FGt(e, Cast(0)) /\ FLe(s, e)

\* pub fn linspace(start, end, n)
linspace(s, e, n) ==
    /\ status = "unbuilt"
    /\ args' = [start |-> s, end |-> e, n |-> n]
    /\ IF LinspaceOk(s, e)
       THEN /\ status' = "live"
            /\ kind' = "lin"
            /\ start' = s
            /\ state' = 0
            /\ step' = StepOf(s, e, n)
            /\ stop' = n
            /\ underflow' = (underflow \/ StepUnderflows(n))
            /\ ret' = Built("linspace")
       ELSE /\ status' = "panicked"
            /\ kind' = "lin"
            /\ ret' = Panic("linspace")
            /\ UNCHANGED <<fields, underflow>>
    /\ UNCHANGED <<yielded, nones, lnArgs>>

\* logspace taking the logarithm of start only.
logspace_rawEnd(s, e, n) ==
    /\ status = "unbuilt"
    /\ args' = [start |-> s, end |-> e, n |-> n]
    /\ IF LogspaceOk(s, e)
       THEN /\ status' = "live"
            /\ kind' = "log"
            /\ start' = Ln(s)
            /\ state' = 0
            /\ step' = StepOf(Ln(s), e, n)
            /\ stop' = n
            /\ lnArgs' = {s}
            /\ underflow' = (underflow \/ StepUnderflows(n))
            /\ ret' = Built("logspace")
       ELSE /\ status' = "panicked"
            /\ kind' = "log"
            /\ ret' = Panic("logspace")
            /\ UNCHANGED <<fields, lnArgs, underflow>>
    /\ UNCHANGED <<yielded, nones>>

\* pub fn logspace(start, end, n)
logspace(s, e, n) ==
    /\ status = "unbuilt"
    /\ args' = [start |-> s, end |-> e, n |-> n]
    /\ IF LogspaceOk(s, e)
       THEN /\ status' = "live"
            /\ kind' = "log"
            /\ start' = Ln(s)
            /\ state' = 0
            /\ step' = StepOf(Ln(s), Ln(e), n)
            /\ stop' = n
            /\ lnArgs' = {s, e}
            /\ underflow' = (underflow \/ StepUnderflows(n))
            /\ ret' = Built("logspace")
       ELSE /\ status' = "panicked"
            /\ kind' = "log"
            /\ ret' = Panic("logspace")
            /\ UNCHANGED <<fields, lnArgs, underflow>>
    /\ UNCHANGED <<yielded, nones>>

\* The value with the sum taken before the product: (start + step) * cast(i).
LinValue_sumFirst(i) == FMul(FAdd(start, step), Cast(i))

\* `self.start + self.step * T::cast(i)`
LinValue(i) == FAdd(start, FMul(step, Cast(i)))

\* `(self.start + self.step * T::cast(i)).exp()`
LogValue(i) == Exp(FAdd(start, FMul(step, Cast(i))))

Yield(side, i, v) == Append(yielded, [side |-> side, idx |-> i, val |-> v])

\* Linspace::next testing `state > stop` for exhaustion.
Linspace_next_gt ==
    /\ status = "live" /\ kind = "lin"
    /\ IF state > stop
       THEN /\ nones < MaxNone
            /\ nones' = nones + 1
            /\ ret' = None("next")
            /\ UNCHANGED <<fields, yielded>>
       ELSE /\ state < MaxN + 2
            /\ ret' = Some("next", LinValue(state))
            /\ yielded' = Yield("front", state, LinValue(state))
            /\ state' = state + 1
            /\ UNCHANGED <<start, step, stop, nones>>
    /\ UNCHANGED <<kind, status, args, lnArgs, underflow>>

\* Linspace::next
Linspace_next ==
    /\ status = "live" /\ kind = "lin"
    /\ IF state = stop
       THEN /\ nones < MaxNone
            /\ nones' = nones + 1
            /\ ret' = None("next")
            /\ UNCHANGED <<fields, yielded>>
       ELSE /\ ret' = Some("next", LinValue(state))
            /\ yielded' = Yield("front", state, LinValue(state))
            /\ state' = state + 1
            /\ UNCHANGED <<start, step, stop, nones>>
    /\ UNCHANGED <<kind, status, args, lnArgs, underflow>>

\* Linspace::next_back computing the value before it decrements `stop`.
Linspace_next_back_postdec ==
    /\ status = "live" /\ kind = "lin"
    /\ IF state = stop
       THEN /\ nones < MaxNone
            /\ nones' = nones + 1
            /\ ret' = None("next_back")
            /\ UNCHANGED <<fields, yielded, underflow>>
       ELSE /\ underflow' = (underflow \/ stop < 1)
            /\ stop' = stop - 1
            /\ ret' = Some("next_back", LinValue(stop))
            /\ yielded' = Yield("back", stop, LinValue(stop))
            /\ UNCHANGED <<start, step, state, nones>>
    /\ UNCHANGED <<kind, status, args, lnArgs>>

\* Linspace::next_back taking `stop == 0` for exhaustion.
Linspace_next_back_zero ==
    /\ status = "live" /\ kind = "lin"
    /\ IF stop = 0
       THEN /\ nones < MaxNone
            /\ nones' = nones + 1
            /\ ret' = None("next_back")
            /\ UNCHANGED <<fields, yielded, underflow>>
       ELSE /\ underflow' = (underflow \/ stop < 1)
            /\ stop' = stop - 1
            /\ ret' = Some("next_back", LinValue(stop - 1))
            /\ yielded' = Yield("back", stop - 1, LinValue(stop - 1))
            /\ UNCHANGED <<start, step, state, nones>>
    /\ UNCHANGED <<kind, status, args, lnArgs>>

\* Linspace::next_back
Linspace_next_back ==
    /\ status = "live" /\ kind = "lin"
    /\ IF state = stop
       THEN /\ nones < MaxNone
            /\ nones' = nones + 1
            /\ ret' = None("next_back")
            /\ UNCHANGED <<fields, yielded, underflow>>
       ELSE /\ underflow' = (underflow \/ stop < 1)
            /\ stop' = stop - 1
            /\ ret' = Some("next_back", LinValue(stop - 1))
            /\ yielded' = Yield("back", stop - 1, LinValue(stop - 1))
            /\ UNCHANGED <<start, step, state, nones>>
    /\ UNCHANGED <<kind, status, args, lnArgs>>

\* Linspace::size_hint reporting `stop` without subtracting `state`.
Linspace_size_hint_total ==
    /\ status = "live" /\ kind = "lin"
    /\ ret' = Hint(stop, stop)
    /\ UNCHANGED <<kind, status, fields, args, yielded, nones, lnArgs, underflow>>

\* Linspace::size_hint
Linspace_size_hint ==
    /\ status = "live" /\ kind = "lin"
    /\ LET exact == stop - state IN ret' = Hint(exact, exact)
    /\ underflow' = (underflow \/ stop < state)
    /\ UNCHANGED <<kind, status, fields, args, yielded, nones, lnArgs>>

\* Logspace::next signalling exhaustion one index early.
Logspace_next_early ==
    /\ status = "live" /\ kind = "log"
    /\ IF state + 1 >= stop
       THEN /\ nones < MaxNone
            /\ nones' = nones + 1
            /\ ret' = None("next")
            /\ UNCHANGED <<fields, yielded>>
       ELSE /\ ret' = Some("next", LogValue(state))
            /\ yielded' = Yield("front", state, LogValue(state))
            /\ state' = state + 1
            /\ UNCHANGED <<start, step, stop, nones>>
    /\ UNCHANGED <<kind, status, args, lnArgs, underflow>>

\* Logspace::next advancing `state` by two while two values remain.
Logspace_next_skip ==
    /\ status = "live" /\ kind = "log"
    /\ IF state = stop
       THEN /\ nones < MaxNone
            /\ nones' = nones + 1
            /\ ret' = None("next")
            /\ UNCHANGED <<fields, yielded>>
       ELSE /\ ret' = Some("next", LogValue(state))
            /\ yielded' = Yield("front", state, LogValue(state))
            /\ state' = IF state + 2 <= stop THEN state + 2 ELSE state + 1
            /\ UNCHANGED <<start, step, stop, nones>>
    /\ UNCHANGED <<kind, status, args, lnArgs, underflow>>

\* Logspace::next
Logspace_next ==
    /\ status = "live" /\ kind = "log"
    /\ IF state = stop
       THEN /\ nones < MaxNone
            /\ nones' = nones + 1
            /\ ret' = None("next")
            /\ UNCHANGED <<fields, yielded>>
       ELSE /\ ret' = Some("next", LogValue(state))
            /\ yielded' = Yield("front", state, LogValue(state))
            /\ state' = state + 1
            /\ UNCHANGED <<start, step, stop, nones>>
    /\ UNCHANGED <<kind, status, args, lnArgs, underflow>>

\* Logspace::next_back computing the value before it decrements `stop`.
Logspace_next_back_postdec ==
    /\ status = "live" /\ kind = "log"
    /\ IF state = stop
       THEN /\ nones < MaxNone
            /\ nones' = nones + 1
            /\ ret' = None("next_back")
            /\ UNCHANGED <<fields, yielded, underflow>>
       ELSE /\ underflow' = (underflow \/ stop < 1)
            /\ stop' = stop - 1
            /\ ret' = Some("next_back", LogValue(stop))
            /\ yielded' = Yield("back", stop, LogValue(stop))
            /\ UNCHANGED <<start, step, state, nones>>
    /\ UNCHANGED <<kind, status, args, lnArgs>>

\* Logspace::next_back advancing the front cursor, as `next` does.
Logspace_next_back_front ==
    /\ status = "live" /\ kind = "log"
    /\ IF state = stop
       THEN /\ nones < MaxNone
            /\ nones' = nones + 1
            /\ ret' = None("next_back")
            /\ UNCHANGED <<fields, yielded, underflow>>
       ELSE /\ state' = state + 1
            /\ ret' = Some("next_back", LogValue(stop - 1))
            /\ yielded' = Yield("back", stop - 1, LogValue(stop - 1))
            /\ UNCHANGED <<start, step, stop, nones, underflow>>
    /\ UNCHANGED <<kind, status, args, lnArgs>>

\* Logspace::next_back
Logspace_next_back ==
    /\ status = "live" /\ kind = "log"
    /\ IF state = stop
       THEN /\ nones < MaxNone
            /\ nones' = nones + 1
            /\ ret' = None("next_back")
            /\ UNCHANGED <<fields, yielded, underflow>>
       ELSE /\ underflow' = (underflow \/ stop < 1)
            /\ stop' = stop - 1
            /\ ret' = Some("next_back", LogValue(stop - 1))
            /\ yielded' = Yield("back", stop - 1, LogValue(stop - 1))
            /\ UNCHANGED <<start, step, state, nones>>
    /\ UNCHANGED <<kind, status, args, lnArgs>>

\* Logspace::size_hint subtracting the other way round: `state - stop`.
Logspace_size_hint_swapped ==
    /\ status = "live" /\ kind = "log"
    /\ LET exact == state - stop IN ret' = Hint(exact, exact)
    /\ underflow' = (underflow \/ state < stop)
    /\ UNCHANGED <<kind, status, fields, args, yielded, nones, lnArgs>>

\* Logspace::size_hint
Logspace_size_hint ==
    /\ status = "live" /\ kind = "log"
    /\ LET exact == stop - state IN ret' = Hint(exact, exact)
    /\ underflow' = (underflow \/ stop < state)
    /\ UNCHANGED <<kind, status, fields, args, yielded, nones, lnArgs>>

\* The arguments tried: NaN, the infinities, the largest finite values, zero, the
\* smallest positive value 2^-FracBits, and 1.0, 2.0, 3.0, 5.0 and -1.0.
Inputs ==
    {NaN, NInf, PInf, 0 - MaxFinite, MaxFinite, 0 - One, 0, 1, One, 2 * One, 3 * One, 5 * One}

Construct_linspace == \E s \in Inputs, e \in Inputs, n \in 0..MaxN : linspace(s, e, n)
Construct_logspace == \E s \in Inputs, e \in Inputs, n \in 0..MaxN : logspace(s, e, n)

\* One generator, driven by any sequence of calls.
Next ==
    \/ Construct_linspace /\ UNCHANGED <<cloneVars, twinVars>>
    \/ Construct_logspace /\ UNCHANGED <<cloneVars, twinVars>>
    \/ Linspace_next /\ UNCHANGED <<cloneVars, twinVars>>
    \/ Linspace_next_back /\ UNCHANGED <<cloneVars, twinVars>>
    \/ Linspace_size_hint /\ UNCHANGED <<cloneVars, twinVars>>
    \/ Logspace_next /\ UNCHANGED <<cloneVars, twinVars>>
    \/ Logspace_next_back /\ UNCHANGED <<cloneVars, twinVars>>
    \/ Logspace_size_hint /\ UNCHANGED <<cloneVars, twinVars>>

Spec == Init /\ [][Next]_vars

\* ------------------------------------------- a generator held as a value
\* `self.start + self.step * T::cast(i)`, exponentiated by a Logspace.
GenValue(k, g, i) ==
    LET x == FAdd(g.start, FMul(g.step, Cast(i)))
    IN  IF k = "lin" THEN x ELSE Exp(x)

\* next on the generator g of kind k: the generator after the call and the result.
GenNext(k, g) ==
    IF g.state = g.stop
    THEN [gen |-> g, ret |-> None("next")]
    ELSE [gen |-> [g EXCEPT !.state = g.state + 1],
          ret |-> Some("next", GenValue(k, g, g.state))]

\* next_back on the generator g of kind k.
GenNextBack(k, g) ==
    IF g.state = g.stop
    THEN [gen |-> g, ret |-> None("next_back")]
    ELSE [gen |-> [g EXCEPT !.stop = g.stop - 1],
          ret |-> Some("next_back", GenValue(k, g, g.stop - 1))]

\* size_hint on the generator g.
GenSizeHint(g) == Hint(g.stop - g.state, g.stop - g.state)

\* ---------------------------------------------------------------- Clone
\* #[derive(Clone)]: a field-by-field copy.
CloneOf == Gen(start, state, step, stop)

\* self.clone(), taken once, in any state of the generator.
Clone ==
    /\ status = "live" /\ cloneAt = 0 - 1
    /\ copy' = CloneOf
    /\ cloneAt' = Len(yielded)
    /\ UNCHANGED <<kind, status, fields, args, yielded, ret, nones, lnArgs, underflow,
                   cyielded, cret, twinVars>>

CopyYield(side, r) ==
    IF r.ret.tag = "Some"
    THEN Append(cyielded, [side |-> side,
                           idx |-> IF side = "front" THEN copy.state ELSE copy.stop - 1,
                           val |-> r.ret.val])
    ELSE cyielded

\* next on the clone, advancing the original's cursor as well.
Copy_next_shared ==
    /\ status = "live" /\ cloneAt >= 0
    /\ LET r == GenNext(kind, copy)
       IN  /\ copy' = r.gen
           /\ cret' = r.ret
           /\ cyielded' = CopyYield("front", r)
           /\ state' = IF r.ret.tag = "Some" /\ state < stop THEN state + 1 ELSE state
    /\ UNCHANGED <<kind, status, start, step, stop, args, yielded, ret, nones, lnArgs,
                   underflow, cloneAt, twinVars>>

\* next on the clone.
Copy_next ==
    /\ status = "live" /\ cloneAt >= 0
    /\ LET r == GenNext(kind, copy)
       IN  /\ copy' = r.gen
           /\ cret' = r.ret
           /\ cyielded' = CopyYield("front", r)
    /\ UNCHANGED <<kind, status, fields, args, yielded, ret, nones, lnArgs, underflow,
                   cloneAt, twinVars>>

\* next_back on the clone.
Copy_next_back ==
    /\ status = "live" /\ cloneAt >= 0
    /\ LET r == GenNextBack(kind, copy)
       IN  /\ copy' = r.gen
           /\ cret' = r.ret
           /\ cyielded' = CopyYield("back", r)
    /\ UNCHANGED <<kind, status, fields, args, yielded, ret, nones, lnArgs, underflow,
                   cloneAt, twinVars>>

\* A smaller choice of arguments, for the runs that follow two generators or
\* check progress.
MaxFewN == 3

FewInputs == {0, One, 3 * One, PInf}

Few_linspace ==
    \E s \in FewInputs, e \in FewInputs, n \in 0..MaxFewN : linspace(s, e, n)
Few_logspace ==
    \E s \in FewInputs, e \in FewInputs, n \in 0..MaxFewN : logspace(s, e, n)

\* A generator and its clone, each driven by any sequence of pulls.
NextClone ==
    \/ Few_linspace /\ UNCHANGED <<cloneVars, twinVars>>
    \/ Few_logspace /\ UNCHANGED <<cloneVars, twinVars>>
    \/ Linspace_next /\ UNCHANGED <<cloneVars, twinVars>>
    \/ Linspace_next_back /\ UNCHANGED <<cloneVars, twinVars>>
    \/ Logspace_next /\ UNCHANGED <<cloneVars, twinVars>>
    \/ Logspace_next_back /\ UNCHANGED <<cloneVars, twinVars>>
    \/ Clone
    \/ Copy_next
    \/ Copy_next_back

SpecClone == Init /\ [][NextClone]_vars

\* ------------------------------------------- a consumer that keeps pulling
\* Any pull, from either end.
Pull ==
    \/ Linspace_next /\ UNCHANGED <<cloneVars, twinVars>>
    \/ Linspace_next_back /\ UNCHANGED <<cloneVars, twinVars>>
    \/ Logspace_next /\ UNCHANGED <<cloneVars, twinVars>>
    \/ Logspace_next_back /\ UNCHANGED <<cloneVars, twinVars>>

\* One generator, pulled from either end in any order.
NextPull ==
    \/ Few_linspace /\ UNCHANGED <<cloneVars, twinVars>>
    \/ Few_logspace /\ UNCHANGED <<cloneVars, twinVars>>
    \/ Pull

\* The consumer does not stop pulling while a pull is possible.
SpecPull == Init /\ [][NextPull]_vars /\ WF_vars(Pull)

\* ------------------------------------- a Linspace beside the Logspace
\* linspace(s, e, n) as a value: the generator built, or the panic.
GenLinspace(s, e, n) ==
    IF LinspaceOk(s, e)
    THEN [gen |-> Gen(s, 0, StepOf(s, e, n), n), ret |-> Built("linspace")]
    ELSE [gen |-> NoGen, ret |-> Panic("linspace")]

\* logspace(s, e, n), and linspace(ln(s), ln(e), n) for the same n.
Twin_construct ==
    \E s \in Inputs, e \in Inputs, n \in 0..MaxN :
        /\ logspace(s, e, n)
        /\ IF LogspaceOk(s, e)
           THEN LET r == GenLinspace(Ln(s), Ln(e), n)
                IN  twin' = r.gen /\ tret' = r.ret
           ELSE UNCHANGED twinVars
        /\ UNCHANGED cloneVars

\* next on both.
Twin_next ==
    /\ Logspace_next
    /\ LET r == GenNext("lin", twin) IN twin' = r.gen /\ tret' = r.ret
    /\ UNCHANGED cloneVars

\* next_back on both.
Twin_next_back ==
    /\ Logspace_next_back
    /\ LET r == GenNextBack("lin", twin) IN twin' = r.gen /\ tret' = r.ret
    /\ UNCHANGED cloneVars

\* size_hint on both.
Twin_size_hint ==
    /\ Logspace_size_hint
    /\ tret' = GenSizeHint(twin)
    /\ UNCHANGED <<twin, cloneVars>>

\* A Logspace and a Linspace given the same calls.
NextTwin ==
    \/ Twin_construct
    \/ Twin_next
    \/ Twin_next_back
    \/ Twin_size_hint

SpecTwin == Init /\ [][NextTwin]_vars

\* ------------------------------------------------------------- the tests
\* `const TOL: $ty = 1e-3`, as the real number 1 / TolInverse: it lies strictly
\* between 0 and the smallest positive value of the model's T.
TolInverse == 1000

\* IsClose::is_close: `(self - rhs).abs() < TOL`
IsClose(a, b) ==
    LET d == FSub(a, b)
    IN  IsFinite(d) /\ TolInverse * Abs(d) < One

\* `v.windows(2).map(|w| w[1] - w[0])`
Spaces(v) == [j \in 1..(Len(v) - 1) |-> FSub(v[j + 1], v[j])]

\* `match spaces.next() { None => true,
\*                        Some(first) => spaces.all(|space| space.is_close(first)) }`
EvenlySpaced(v) ==
    \A j \in 2..(Len(v) - 1) : IsClose(Spaces(v)[j], Spaces(v)[1])


\* ------------------------------------------------------------- properties
Live == status = "live"
Indices == {yielded[j].idx : j \in DOMAIN yielded}
AllFrom(side) == \A j \in DOMAIN yielded : yielded[j].side = side
\* The value the generator computes for index i.
ValueAt(i) == IF kind = "lin" THEN LinValue(i) ELSE LogValue(i)

\* C1: for Linspace and Logspace built with count n, every reachable state has
\* 0 <= state (cursor_front) <= stop (cursor_back) <= n.
C1_CursorOrder ==
    Live => 0 <= state /\ state <= stop /\ stop <= args.n

\* A Logspace whose cursors met strictly inside 0..n after pulls from both ends.
C1_Witness ==
    Live /\ kind = "log" /\ state = stop /\ state >= 2 /\ stop + 2 <= args.n

\* C2: under any interleaving of front and back pulls the indices yielded so far
\* are exactly 0..state-1 and stop..n-1, the two parts are disjoint, none is
\* yielded twice, and an exhausted generator has yielded every index of 0..n-1.
C2_NoDuplicateNoSkip ==
    Live =>
        /\ Indices = (0..(state - 1)) \cup (stop..(args.n - 1))
        /\ (0..(state - 1)) \cap (stop..(args.n - 1)) = {}
        /\ Cardinality(Indices) = Len(yielded)
        /\ \A j \in DOMAIN yielded :
              yielded[j].side = "front" <=> yielded[j].idx < state
        /\ (state = stop => Indices = 0..(args.n - 1) /\ Len(yielded) = args.n)

\* A generator exhausted by pulls alternating back, front, back, ...
C2_Witness ==
    /\ Live /\ state = stop /\ args.n >= 4 /\ Len(yielded) = args.n
    /\ yielded[1].side = "back" /\ yielded[2].side = "front"
    /\ yielded[3].side = "back" /\ yielded[4].side = "front"

\* C3: pulling only from the front until exhaustion yields exactly n values, and
\* so does pulling only from the back, for linspace and logspace.
C3_Size ==
    (Live /\ nones > 0 /\ (AllFrom("front") \/ AllFrom("back")))
        => Len(yielded) = args.n

\* A Logspace of at least three values drained from the back, then answering None.
C3_Witness ==
    /\ Live /\ kind = "log" /\ args.n >= 3 /\ AllFrom("back")
    /\ Len(yielded) = args.n /\ ret = None("next_back")

\* C4: a generator consumed only from the back yields the indices n-1, n-2, ..., 0
\* in that order, one consumed only from the front yields 0, 1, ..., n-1, and the
\* value yielded for an index is the same from either end: the back-only sequence
\* is the reverse of the front-only one.
C4_Reversal ==
    Live =>
        /\ AllFrom("back") => \A j \in DOMAIN yielded : yielded[j].idx = args.n - j
        /\ AllFrom("front") => \A j \in DOMAIN yielded : yielded[j].idx = j - 1
        /\ \A j \in DOMAIN yielded : yielded[j].val = ValueAt(yielded[j].idx)

\* A Linspace over distinct endpoints drained from the back: it began with `end`
\* and finished with `start`.
C4_Witness ==
    /\ Live /\ kind = "lin" /\ args.n >= 3 /\ AllFrom("back") /\ Len(yielded) = args.n
    /\ yielded[1].val = args.end /\ yielded[args.n].val = args.start
    /\ args.start # args.end

\* C5: size_hint is exact: both bounds are stop - state, which is n minus the
\* number of values yielded so far and is 0 exactly when the generator is
\* exhausted; the call changes no field of the generator.
C5_HintExact ==
    (Live /\ ret.tag = "Hint") =>
        /\ ret.lo = stop - state /\ ret.hi = stop - state
        /\ ret.lo = args.n - Len(yielded)
        /\ (ret.lo = 0 <=> state = stop)

C5_HintPure ==
    ret'.tag = "Hint" => UNCHANGED <<fields, yielded, nones>>

\* C5: the remaining count size_hint reports is exact in every reachable state,
\* and a size_hint call changes no field of the generator.
C5_SizeHint == []C5_HintExact /\ [][C5_HintPure]_vars

\* size_hint answering 2 on a Linspace of five after pulls from both ends.
C5_Witness ==
    /\ Live /\ kind = "lin" /\ ret.tag = "Hint" /\ ret.lo = 2
    /\ args.n = 5 /\ state = 2 /\ stop = 4

\* C6: linspace(start, end, n) with start > end panics at construction for every
\* n, n = 0 and n = 1 included: no generator is returned, no field is set from
\* the arguments, and no value is ever produced.
C6_LinspacePanics ==
    (kind = "lin" /\ FGt(args.start, args.end)) =>
        /\ status = "panicked" /\ ret = Panic("linspace")
        /\ yielded = <<>> /\ nones = 0
        /\ fields = <<0, 0, 0, 0>>

\* linspace(3.0, 2.0, 1) has panicked.
C6_Witness ==
    /\ kind = "lin" /\ status = "panicked"
    /\ args = [start |-> 3 * One, end |-> 2 * One, n |-> 1]

\* C7: logspace(start, end, n) panics at construction whenever start <= 0, or
\* end <= 0, or start > end, for every n; no logarithm has been taken by then
\* (a logarithm is only ever taken of a positive value) and no generator is
\* returned.
C7_LogspacePanics ==
    /\ (kind = "log" /\ (\/ FLe(args.start, 0)
                         \/ FLe(args.end, 0)
                         \/ FGt(args.start, args.end))) =>
            /\ status = "panicked" /\ ret = Panic("logspace")
            /\ lnArgs = {}
            /\ yielded = <<>> /\ nones = 0
            /\ fields = <<0, 0, 0, 0>>
    /\ \A x \in lnArgs : FGt(x, 0)

\* logspace(-1.0, 5.0, 3) has panicked.
C7_Witness ==
    /\ kind = "log" /\ status = "panicked"
    /\ args = [start |-> 0 - One, end |-> 5 * One, n |-> 3]

\* C8: a front pull changes only state (by +1 when it yields), a back pull
\* changes only stop (by -1 when it yields), and no operation on a generator
\* changes start or step.
C8_FrameStep ==
    Live =>
        /\ start' = start /\ step' = step
        /\ ret'.op = "next" =>
              /\ stop' = stop
              /\ state' = IF ret'.tag = "Some" THEN state + 1 ELSE state
        /\ ret'.op = "next_back" =>
              /\ state' = state
              /\ stop' = IF ret'.tag = "Some" THEN stop - 1 ELSE stop
        /\ ret'.op = "size_hint" => state' = state /\ stop' = stop

\* C8: every step of the program keeps the frame above: a pull mutates its own
\* cursor only, and start and step are never changed after construction.
C8_Frame == [][C8_FrameStep]_vars

\* A Logspace with a non-zero step that has just yielded from the back after
\* front pulls.
C8_Witness ==
    /\ Live /\ kind = "log" /\ step # 0 /\ state >= 1
    /\ ret.op = "next_back" /\ ret.tag = "Some" /\ stop < args.n

\* C9: for n < 2 the step is 0; a generator built with n = 0 yields nothing from
\* either end (every pull is answered None); a Linspace built with n = 1 yields
\* exactly start once, from either end, and is then exhausted.
C9_Degenerate ==
    Live =>
        /\ args.n < 2 => step = 0
        /\ args.n = 0 =>
              /\ yielded = <<>>
              /\ ret.op \in {"next", "next_back"} => ret.tag = "None"
        /\ (kind = "lin" /\ args.n = 1) =>
              /\ Len(yielded) <= 1
              /\ \A j \in DOMAIN yielded : FEq(yielded[j].val, args.start)
              /\ Len(yielded) = 1 => state = stop
              /\ nones > 0 => Len(yielded) = 1

\* linspace(start, end, 1) with start # end, start # 0: one back pull gave start,
\* the next pull gave None.
C9_Witness ==
    /\ Live /\ kind = "lin" /\ args.n = 1 /\ args.start # args.end /\ args.start # 0
    /\ Len(yielded) = 1 /\ yielded[1].side = "back" /\ yielded[1].val = args.start
    /\ nones > 0

ExactArgs ==
    LET d == args.end - args.start
        m == args.n - 1
    IN  /\ IsFinite(args.start) /\ IsFinite(args.end)
        /\ d <= MaxFinite /\ IsRep(d)
        /\ m * One <= MaxFinite /\ IsRep(m * One)
        /\ d % m = 0 /\ IsRep(d \div m)

C10_RoundedEndpoint ==
    /\ Live /\ kind = "lin" /\ args.n >= 2
    /\ IsFinite(args.start) /\ IsFinite(args.end) /\ IsFinite(step)
    /\ \E j \in DOMAIN yielded :
          yielded[j].idx = args.n - 1 /\ ~FEq(yielded[j].val, args.end)

\* The values yielded so far, in production order.
Values == [j \in DOMAIN yielded |-> yielded[j].val]
FiniteArgs == IsFinite(args.start) /\ IsFinite(args.end)

\* C11: the values of a front-only run are non-decreasing (`w[1] >= w[0]`) and
\* those of a back-only run non-increasing (`w[1] <= w[0]`), for linspace and
\* logspace.  Stated for finite start and end, where it already fails.
C11_Monotonic ==
    (Live /\ FiniteArgs) =>
        /\ AllFrom("front") =>
              \A j \in 1..(Len(yielded) - 1) : FLe(Values[j], Values[j + 1])
        /\ AllFrom("back") =>
              \A j \in 1..(Len(yielded) - 1) : FLe(Values[j + 1], Values[j])

OneEnded == AllFrom("front") \/ AllFrom("back")
AllFinite == \A j \in DOMAIN yielded : IsFinite(Values[j])
Max(a, b) == IF a > b THEN a ELSE b
\* The unit in the last place of a value of magnitude m quanta.
Ulp(m) ==
    2 ^ (CHOOSE e \in 0..ExpRange :
            /\ m < 2 ^ (MantBits + e)
            /\ \A d \in 0..(e - 1) : m >= 2 ^ (MantBits + d))

ExactRun ==
    /\ args.n >= 2 /\ ExactArgs
    /\ \A i \in 0..(args.n - 1) :
          LET q == (args.end - args.start) \div (args.n - 1)
          IN  IsRep(i * One) /\ IsRep(q * i) /\ IsRep(args.start + q * i)

Cloned == Live /\ cloneAt >= 0
\* What the original yielded since the clone was taken.
SinceClone == SubSeq(yielded, cloneAt + 1, Len(yielded))
SameCalls ==
    /\ Len(SinceClone) = Len(cyielded)
    /\ \A j \in DOMAIN cyielded : SinceClone[j].side = cyielded[j].side

C13_FrameStep ==
    Cloned =>
        /\ (copy' # copy \/ cyielded' # cyielded \/ cret' # cret)
              => (fields' = fields /\ yielded' = yielded)
        /\ (fields' # fields \/ yielded' # yielded)
              => (copy' = copy /\ cyielded' = cyielded)
C13_SameValues ==
    (Cloned /\ SameCalls) => (SinceClone = cyielded /\ copy = CloneOf)

\* C13: after Clone in any reachable state, next / next_back on the copy leave the
\* original's state, stop, start and step unchanged, and calls on the original
\* leave the copy unchanged; driven by the same calls since the clone, both have
\* yielded the same values from the same indices and hold equal fields.
C13_Independent == [][C13_FrameStep]_vars /\ []C13_SameValues

\* A clone taken in mid-run; original and copy were then each pulled once from
\* the front and once from the back, and the copy, drained, answered None.
C13_Witness ==
    /\ Cloned /\ cloneAt >= 1
    /\ Len(cyielded) = 2
    /\ cyielded[1].side = "front" /\ cyielded[2].side = "back"
    /\ SinceClone = cyielded
    /\ cret.tag = "None"

\* C14: linspace(start, end, n) with start == end is accepted, has step 0, yields
\* only values equal to start under any interleaving of front and back pulls, and
\* has yielded exactly n of them when it first answers None.
C14_ZeroStep ==
    (kind = "lin" /\ status # "unbuilt" /\ FEq(args.start, args.end)) =>
        /\ Live
        /\ step = 0
        /\ \A j \in DOMAIN yielded : FEq(yielded[j].val, args.start)
        /\ nones > 0 => Len(yielded) = args.n

Pulled == nones' # nones \/ yielded' # yielded
C15_Step ==
    Live =>
        /\ status' = "live"
        /\ state = stop => (fields' = fields /\ yielded' = yielded)
        /\ Pulled => /\ ret'.op \in {"next", "next_back"}
                     /\ ret'.tag \in {"Some", "None"}
                     /\ (ret'.tag = "None") <=> (state = stop)

\* C15: once state = stop (cursor_front = cursor_back), every later next and
\* next_back returns None, never a value and never a fault, and leaves state,
\* stop, start and step unchanged; a pull returns None exactly when state = stop.
C15_Exhaustion == [][C15_Step]_vars

\* A generator pulled from both ends until its cursors met inside 0..n, then
\* pulled twice more, the last time from the front.
C15_Witness ==
    /\ Live /\ state = stop /\ 0 < state /\ state < args.n
    /\ nones >= 2 /\ ret = None("next")

\* C16: for the same n and the same calls, a Logspace built from (start, end) and
\* a Linspace built from (ln(start), ln(end)) hold equal start, step, state and
\* stop after every call, answer Some, None or the same size_hint on the same
\* calls, and each value of the Logspace is exp of the Linspace's on that call.
C16_SameCursors ==
    (Live /\ kind = "log") =>
        /\ twin = Gen(start, state, step, stop)
        /\ tret.tag = ret.tag
        /\ ret.tag \in {"Some", "None", "Hint"} => tret.op = ret.op
        /\ ret.tag = "Some" => ret.val = Exp(tret.val)
        /\ ret.tag = "Hint" => (tret.lo = ret.lo /\ tret.hi = ret.hi)

\* Both pulled from the front, then the back, then asked their size with one left
\* to give, the Logspace's values differing from the Linspace's.
C16_Witness ==
    /\ Live /\ kind = "log" /\ args.n >= 3 /\ step # 0
    /\ Len(yielded) = 2
    /\ yielded[1].side = "front" /\ yielded[2].side = "back"
    /\ yielded[2].val # FAdd(twin.start, FMul(twin.step, Cast(yielded[2].idx)))
    /\ ret.tag = "Hint" /\ tret.lo = args.n - 2

C17_Step ==
    (Live /\ Pulled) =>
        /\ (ret'.tag = "Some") <=> (Len(yielded) < args.n /\ nones = 0)
        /\ (ret'.tag = "None") <=> (Len(yielded) = args.n)
Signalled == Live /\ nones > 0 /\ Len(yielded) = args.n

\* C17: whatever the mix of front and back pulls, a generator of count n answers
\* Some on exactly its first n pulls and None on every later one, and a consumer
\* that keeps pulling is told of exhaustion after exactly n values.
C17_Terminates == [][C17_Step]_vars /\ (Live ~> Signalled)

\* A generator of at least three values, drained from both ends by turns, then
\* answering None twice.
C17_Witness ==
    /\ Live /\ args.n >= 3 /\ Len(yielded) = args.n /\ nones >= 2
    /\ \A j \in 1..(Len(yielded) - 1) : yielded[j].side # yielded[j + 1].side

\* C18: no usize subtraction underflows, for every n and every sequence of
\* calls: `n - 1` is evaluated only when n >= 2, `stop -= 1` only when
\* stop > state >= 0, and `stop - state` only when state <= stop.
C18_NoUnderflow ==
    /\ underflow = FALSE
    /\ Live => (0 <= state /\ state <= stop)
    /\ (Live /\ step # 0) => args.n >= 2

\* A generator of at least two values and a non-zero step, whose last value,
\* index 0, was taken from the back, and which then reported a size of 0.
C18_Witness ==
    /\ Live /\ args.n >= 2 /\ step # 0
    /\ Len(yielded) = args.n
    /\ yielded[Len(yielded)] = [side |-> "back", idx |-> 0, val |-> ValueAt(0)]
    /\ ret = Hint(0, 0)

====
